---- MODULE Spec2Model ----
(***************************************************************************)
(* Student management system (src/main.py): a menu loop over four          *)
(* operations on the flat file students.txt.                               *)
(*                                                                         *)
(* Text is modelled as sequences of one-character strings, so that         *)
(* str.strip, str.split, f-string formatting and line iteration are        *)
(* computed the way Python computes them.                                  *)
(*                                                                         *)
(*   Spec      one program instance; every menu choice is one step         *)
(*   SpecConc  two program instances on the same file; add_student and     *)
(*             delete_student are split at their file-system calls         *)
(***************************************************************************)
EXTENDS Integers, Sequences, FiniteSets, TLC

VARIABLES
    file,      \* students.txt: [exists, data], data the characters on disk
    running,   \* the menu loop of the single instance is alive
    last,      \* most recent menu operation: choice, inputs, printed lines, exception
    prev,      \* the operation before last
    prev2,     \* the operation before prev
    pc,        \* SpecConc: position of each instance
    cur,       \* SpecConc: locals roll/roll_no, name, marks of each instance
    lines,     \* SpecConc: local `lines` of delete_student of each instance
    msg,       \* SpecConc: what each instance printed last
    landed     \* SpecConc: lines other instances appended since this one's readlines()

vars == <<file, running, last, prev, prev2, pc, cur, lines, msg, landed>>
seqVars == <<running, last, prev, prev2>>
concVars == <<pc, cur, lines, msg, landed>>

-----------------------------------------------------------------------------
(* Bounds and inputs *)

MaxLines == 2

R1 == <<"1">>
R2 == <<"2">>
RSp == <<" ", "1">>
NA == <<"A">>
NB == <<"B">>
NComma == <<"A", ",", "B">>
M7 == <<"7">>
MSp == <<"7", " ">>

\* what the user types at the three prompts of add_student
Students == { <<R1, NA, M7>>, <<R1, NB, MSp>>, <<R2, NA, M7>>,
              <<RSp, NA, M7>>, <<R1, NComma, M7>> }

\* what the user types at "Enter Roll No to search/delete"
Rolls == {R1, R2, RSp}

\* inputs of the two-instance specification
ConcStudents == { <<R1, NA, M7>>, <<R2, NB, M7>> }
ConcRolls == {R1, R2}
Inst == {"A", "B"}

-----------------------------------------------------------------------------
(* Printed text *)

MsgAdded == <<"S", "t", "u", "d", "e", "n", "t", " ", "a", "d", "d", "e", "d", " ", "s", "u", "c", "c", "e", "s", "s", "f", "u", "l", "l", "y", "!">>
MsgHeader == <<"\n", "R", "o", "l", "l", " ", "|", " ", "N", "a", "m", "e", " ", "|", " ", "M", "a", "r", "k", "s">>
MsgRule == <<"-", "-", "-", "-", "-", "-", "-", "-", "-", "-", "-", "-", "-", "-", "-", "-", "-", "-", "-">>
MsgNoRecords == <<"N", "o", " ", "r", "e", "c", "o", "r", "d", "s", " ", "f", "o", "u", "n", "d", ".">>
MsgNotFound == <<"S", "t", "u", "d", "e", "n", "t", " ", "n", "o", "t", " ", "f", "o", "u", "n", "d", ".">>
MsgDeleted == <<"S", "t", "u", "d", "e", "n", "t", " ", "d", "e", "l", "e", "t", "e", "d", " ", "s", "u", "c", "c", "e", "s", "s", "f", "u", "l", "l", "y", ".">>
MsgInvalid == <<"I", "n", "v", "a", "l", "i", "d", " ", "c", "h", "o", "i", "c", "e", "!">>
FoundPrefix == <<"F", "o", "u", "n", "d", ":", " ">>
Sep == <<" ", "|", " ">>

\* f"{roll} | {name} | {marks}"
Row(roll, name, marks) == roll \o Sep \o name \o Sep \o marks

\* f"Found: {roll} | {name} | {marks}"
FoundRow(roll, name, marks) == FoundPrefix \o Row(roll, name, marks)

\* the fields written in the wrong order
LineNameFirst(roll, name, marks) == name \o <<",">> \o roll \o <<",">> \o marks \o <<"\n">>

\* f"{roll},{name},{marks}\n"
Line(roll, name, marks) == roll \o <<",">> \o name \o <<",">> \o marks \o <<"\n">>

-----------------------------------------------------------------------------
(* Python text primitives *)

Whitespace == {" ", "\n"}

RECURSIVE LStrip(_)
LStrip(s) ==
    IF s = <<>> THEN <<>>
    ELSE IF Head(s) \in Whitespace THEN LStrip(Tail(s)) ELSE s

RECURSIVE RStrip(_)
RStrip(s) ==
    IF s = <<>> THEN <<>>
    ELSE IF s[Len(s)] \in Whitespace THEN RStrip(SubSeq(s, 1, Len(s) - 1)) ELSE s

\* str.strip(): leading and trailing whitespace removed
Strip(s) == RStrip(LStrip(s))

\* str.split(sep): the pieces between occurrences of sep, empty pieces kept
RECURSIVE Split(_, _)
Split(s, sep) ==
    IF s = <<>> THEN << <<>> >>
    ELSE LET rest == Split(Tail(s), sep)
         IN  IF Head(s) = sep
             THEN << <<>> >> \o rest
             ELSE << <<Head(s)>> \o Head(rest) >> \o Tail(rest)

\* f.readlines() / `for line in f`: lines with their terminator kept
RECURSIVE ReadLines(_)
ReadLines(data) ==
    IF data = <<>> THEN <<>>
    ELSE LET rest == ReadLines(Tail(data))
         IN  IF Head(data) = "\n" THEN << <<"\n">> >> \o rest
             ELSE IF rest = <<>> THEN << <<Head(data)>> >>
             ELSE << <<Head(data)>> \o Head(rest) >> \o Tail(rest)

\* line.strip().split(",")
Fields(line) == Split(Strip(line), ",")

-----------------------------------------------------------------------------
(* The loops of the three reading operations *)

\* view_students, lines 14-16: one row per line, ValueError on a bad unpack
RECURSIVE ViewLoop(_)
ViewLoop(ls) ==
    IF ls = <<>> THEN [out |-> <<>>, err |-> "none"]
    ELSE LET parts == Fields(Head(ls))
         IN  IF Len(parts) # 3 THEN [out |-> <<>>, err |-> "ValueError"]
             ELSE LET rest == ViewLoop(Tail(ls))
                  IN  [out |-> <<Row(parts[1], parts[2], parts[3])>> \o rest.out,
                       err |-> rest.err]

\* search_student without the break: the last matching line wins
RECURSIVE SearchLoopLastMatch(_, _)
SearchLoopLastMatch(ls, roll_no) ==
    IF ls = <<>> THEN [out |-> <<MsgNotFound>>, err |-> "none"]
    ELSE LET parts == Fields(Head(ls))
         IN  IF Len(parts) # 3 THEN [out |-> <<>>, err |-> "ValueError"]
             ELSE LET rest == SearchLoopLastMatch(Tail(ls), roll_no)
                  IN  IF parts[1] = roll_no /\ rest.out = <<MsgNotFound>>
                      THEN [out |-> <<FoundRow(parts[1], parts[2], parts[3])>>, err |-> "none"]
                      ELSE rest

\* search_student, lines 22-31: stop at the first line whose roll matches
RECURSIVE SearchLoop(_, _)
SearchLoop(ls, roll_no) ==
    IF ls = <<>> THEN [out |-> <<MsgNotFound>>, err |-> "none"]
    ELSE LET parts == Fields(Head(ls))
         IN  IF Len(parts) # 3 THEN [out |-> <<>>, err |-> "ValueError"]
             ELSE IF parts[1] = roll_no
                  THEN [out |-> <<FoundRow(parts[1], parts[2], parts[3])>>, err |-> "none"]
                  ELSE SearchLoop(Tail(ls), roll_no)

\* delete_student dropping the first matching line only: after it the
\* loop goes on with a roll no line can have
RECURSIVE DeleteLoopFirstOnly(_, _)
DeleteLoopFirstOnly(ls, roll_no) ==
    IF ls = <<>> THEN [written |-> <<>>, found |-> FALSE, err |-> "none"]
    ELSE LET parts == Fields(Head(ls))
         IN  IF Len(parts) # 3
             THEN [written |-> <<>>, found |-> FALSE, err |-> "ValueError"]
             ELSE IF parts[1] # roll_no
                  THEN LET rest == DeleteLoopFirstOnly(Tail(ls), roll_no)
                       IN  [written |-> Head(ls) \o rest.written,
                            found |-> rest.found, err |-> rest.err]
                  ELSE LET rest == DeleteLoopFirstOnly(Tail(ls), <<"\n">>)
                       IN  [written |-> rest.written, found |-> TRUE, err |-> rest.err]

\* delete_student leaving the loop at the first matching line
RECURSIVE DeleteLoopBreak(_, _)
DeleteLoopBreak(ls, roll_no) ==
    IF ls = <<>> THEN [written |-> <<>>, found |-> FALSE, err |-> "none"]
    ELSE LET parts == Fields(Head(ls))
         IN  IF Len(parts) # 3
             THEN [written |-> <<>>, found |-> FALSE, err |-> "ValueError"]
             ELSE IF parts[1] # roll_no
                  THEN LET rest == DeleteLoopBreak(Tail(ls), roll_no)
                       IN  [written |-> Head(ls) \o rest.written,
                            found |-> rest.found, err |-> rest.err]
                  ELSE [written |-> <<>>, found |-> TRUE, err |-> "none"]

\* delete_student copying a line it cannot unpack instead of raising
RECURSIVE DeleteLoopKeepBad(_, _)
DeleteLoopKeepBad(ls, roll_no) ==
    IF ls = <<>> THEN [written |-> <<>>, found |-> FALSE, err |-> "none"]
    ELSE LET parts == Fields(Head(ls))
             rest == DeleteLoopKeepBad(Tail(ls), roll_no)
         IN  IF Len(parts) # 3 \/ parts[1] # roll_no
             THEN [written |-> Head(ls) \o rest.written,
                   found |-> rest.found, err |-> rest.err]
             ELSE [written |-> rest.written, found |-> TRUE, err |-> rest.err]

\* delete_student, lines 41-46: what reaches the file, whether a line matched,
\* and the exception that ended the loop
RECURSIVE DeleteLoop(_, _)
DeleteLoop(ls, roll_no) ==
    IF ls = <<>> THEN [written |-> <<>>, found |-> FALSE, err |-> "none"]
    ELSE LET parts == Fields(Head(ls))
         IN  IF Len(parts) # 3
             THEN [written |-> <<>>, found |-> FALSE, err |-> "ValueError"]
             ELSE LET rest == DeleteLoop(Tail(ls), roll_no)
                  IN  IF parts[1] # roll_no
                      THEN [written |-> Head(ls) \o rest.written,
                            found |-> rest.found, err |-> rest.err]
                      ELSE [written |-> rest.written,
                            found |-> TRUE, err |-> rest.err]

\* delete_student, lines 48-51
DeleteReport(res) ==
    IF res.err # "none" THEN <<>>
    ELSE IF res.found THEN <<MsgDeleted>> ELSE <<MsgNotFound>>

-----------------------------------------------------------------------------
(* One program instance *)

Op(op, roll, name, marks, out, err) ==
    [op |-> op, roll |-> roll, name |-> name, marks |-> marks, out |-> out, err |-> err]

NoOp == Op("none", <<>>, <<>>, <<>>, <<>>, "none")

\* the operation is recorded; an uncaught exception ends the menu loop
Record(o) ==
    /\ last' = o
    /\ prev' = last
    /\ prev2' = prev
    /\ running' = (o.err = "none")

Init ==
    /\ file = [exists |-> FALSE, data |-> <<>>]
    /\ running = TRUE
    /\ last = NoOp
    /\ prev = NoOp
    /\ prev2 = NoOp
    /\ pc = [i \in Inst |-> "menu"]
    /\ cur = [i \in Inst |-> NoOp]
    /\ lines = [i \in Inst |-> <<>>]
    /\ msg = [i \in Inst |-> <<>>]
    /\ landed = [i \in Inst |-> {}]

\* choice "1"
add_student(roll, name, marks) ==
    /\ running
    /\ Len(ReadLines(file.data)) < MaxLines
    /\ file' = [exists |-> TRUE, data |-> file.data \o Line(roll, name, marks)]
    /\ Record(Op("add", roll, name, marks, <<MsgAdded>>, "none"))
    /\ UNCHANGED concVars

\* choice "2"
ViewResult(f) ==
    IF ~f.exists THEN [out |-> <<MsgNoRecords>>, err |-> "none"]
    ELSE LET res == ViewLoop(ReadLines(f.data))
         IN  [out |-> <<MsgHeader, MsgRule>> \o res.out, err |-> res.err]

view_students ==
    /\ running
    /\ LET res == ViewResult(file)
       IN  Record(Op("list", <<>>, <<>>, <<>>, res.out, res.err))
    /\ UNCHANGED <<file, concVars>>

\* search_student with the absent file caught as view_students catches it
SearchResultGuarded(f, roll_no) ==
    IF ~f.exists THEN [out |-> <<MsgNotFound>>, err |-> "none"]
    ELSE SearchLoop(ReadLines(f.data), roll_no)

\* choice "3"
SearchResult(f, roll_no) ==
    IF ~f.exists THEN [out |-> <<>>, err |-> "FileNotFoundError"]
    ELSE SearchLoop(ReadLines(f.data), roll_no)

\* search_student opening the file with mode "w"
search_student_truncating(roll_no) ==
    /\ running
    /\ file' = [exists |-> TRUE, data |-> <<>>]
    /\ Record(Op("search", roll_no, <<>>, <<>>, <<MsgNotFound>>, "none"))
    /\ UNCHANGED concVars

search_student(roll_no) ==
    /\ running
    /\ LET res == SearchResult(file, roll_no)
       IN  Record(Op("search", roll_no, <<>>, <<>>, res.out, res.err))
    /\ UNCHANGED <<file, concVars>>

\* choice "4"
delete_student(roll_no) ==
    /\ running
    /\ IF ~file.exists
       THEN /\ Record(Op("delete", roll_no, <<>>, <<>>, <<>>, "FileNotFoundError"))
            /\ UNCHANGED file
       ELSE LET res == DeleteLoop(ReadLines(file.data), roll_no)
            IN  /\ file' = [exists |-> TRUE, data |-> res.written]
                /\ Record(Op("delete", roll_no, <<>>, <<>>, DeleteReport(res), res.err))
    /\ UNCHANGED concVars

\* choice "5"
exit_choice ==
    /\ running
    /\ running' = FALSE
    /\ UNCHANGED <<file, last, prev, prev2, concVars>>

\* any other choice
invalid_choice ==
    /\ running
    /\ Record(Op("invalid", <<>>, <<>>, <<>>, <<MsgInvalid>>, "none"))
    /\ UNCHANGED <<file, concVars>>

\* the program is started again on the file the previous run left
start_program ==
    /\ ~running
    /\ running' = TRUE
    /\ UNCHANGED <<file, last, prev, prev2, concVars>>

Next ==
    \/ \E s \in Students : add_student(s[1], s[2], s[3])
    \/ view_students
    \/ \E q \in Rolls : search_student(q)
    \/ \E q \in Rolls : delete_student(q)
    \/ exit_choice
    \/ invalid_choice
    \/ start_program

Spec == Init /\ [][Next]_vars

-----------------------------------------------------------------------------
(* Two program instances on the same students.txt.  Each `with open` is   *)
(* a step of its own: open("a") creates the file, the buffered line       *)
(* reaches the file when the block closes it; delete_student reads, then  *)
(* open("w") truncates, then the buffered lines reach the file at the     *)
(* descriptor's offset 0 when the block closes it.                        *)

\* the buffer written at offset 0 over what the file holds
OverlayAtEnd(buf, data) == data \o buf

Overlay(buf, data) ==
    IF Len(buf) >= Len(data) THEN buf
    ELSE buf \o SubSeq(data, Len(buf) + 1, Len(data))

\* lines 2-5: open("a") and the three prompts
ConcAddOpen(i) ==
    /\ pc[i] = "menu"
    /\ Len(ReadLines(file.data)) < MaxLines
    /\ file' = [file EXCEPT !.exists = TRUE]
    /\ pc' = [pc EXCEPT ![i] = "add_open"]
    /\ UNCHANGED <<cur, lines, msg, landed, seqVars>>

\* lines 6-7: the line is appended when the block closes the file
ConcAddClose(i, roll, name, marks) ==
    /\ pc[i] = "add_open"
    /\ Len(ReadLines(file.data)) < MaxLines
    /\ file' = [exists |-> TRUE, data |-> file.data \o Line(roll, name, marks)]
    /\ cur' = [cur EXCEPT ![i] = Op("add", roll, name, marks, <<>>, "none")]
    /\ msg' = [msg EXCEPT ![i] = <<MsgAdded>>]
    /\ landed' = [j \in Inst |->
                    IF j # i /\ pc[j] \in {"del_read", "del_write"}
                    THEN landed[j] \cup {Line(roll, name, marks)}
                    ELSE landed[j]]
    /\ pc' = [pc EXCEPT ![i] = "menu"]
    /\ UNCHANGED <<lines, seqVars>>

\* lines 34-38: the prompt and the first `with` block
ConcDeleteRead(i, roll_no) ==
    /\ pc[i] = "menu"
    /\ cur' = [cur EXCEPT ![i] = Op("delete", roll_no, <<>>, <<>>, <<>>, "none")]
    /\ IF ~file.exists
       THEN /\ pc' = [pc EXCEPT ![i] = "crashed"]
            /\ msg' = [msg EXCEPT ![i] = <<>>]
            /\ UNCHANGED <<lines, landed>>
       ELSE /\ pc' = [pc EXCEPT ![i] = "del_read"]
            /\ lines' = [lines EXCEPT ![i] = ReadLines(file.data)]
            /\ landed' = [landed EXCEPT ![i] = {}]
            /\ UNCHANGED msg
    /\ UNCHANGED <<file, seqVars>>

\* line 40: open("w") truncates
ConcDeleteOpen(i) ==
    /\ pc[i] = "del_read"
    /\ file' = [exists |-> TRUE, data |-> <<>>]
    /\ pc' = [pc EXCEPT ![i] = "del_write"]
    /\ UNCHANGED <<cur, lines, msg, landed, seqVars>>

\* lines 41-51: the loop fills the buffer, leaving the block writes it out
ConcDeleteClose(i) ==
    /\ pc[i] = "del_write"
    /\ LET res == DeleteLoop(lines[i], cur[i].roll)
       IN  /\ file' = [exists |-> TRUE, data |-> Overlay(res.written, file.data)]
           /\ msg' = [msg EXCEPT ![i] = DeleteReport(res)]
           /\ pc' = [pc EXCEPT ![i] = IF res.err = "none" THEN "menu" ELSE "crashed"]
    /\ UNCHANGED <<cur, lines, landed, seqVars>>

\* the instance is started again
ConcStart(i) ==
    /\ pc[i] = "crashed"
    /\ pc' = [pc EXCEPT ![i] = "menu"]
    /\ UNCHANGED <<file, cur, lines, msg, landed, seqVars>>

NextConc ==
    \/ \E i \in Inst : ConcAddOpen(i)
    \/ \E i \in Inst : \E s \in ConcStudents : ConcAddClose(i, s[1], s[2], s[3])
    \/ \E i \in Inst : \E q \in ConcRolls : ConcDeleteRead(i, q)
    \/ \E i \in Inst : ConcDeleteOpen(i)
    \/ \E i \in Inst : ConcDeleteClose(i)
    \/ \E i \in Inst : ConcStart(i)

SpecConc == Init /\ [][NextConc]_vars

-----------------------------------------------------------------------------
(* Vocabulary of the properties *)

Range(s) == {s[i] : i \in DOMAIN s}

StoredLines(f) == IF f.exists THEN ReadLines(f.data) ELSE <<>>

\* the line unpacks into roll, name, marks
ThreeFields(l) == Len(Fields(l)) = 3

\* the file exists and every line of it unpacks into three fields
WellFormed(f) == f.exists /\ \A i \in DOMAIN StoredLines(f) : ThreeFields(StoredLines(f)[i])

\* the records the store holds, in store order
Records(f) ==
    LET good == SelectSeq(StoredLines(f), ThreeFields)
    IN  [i \in DOMAIN good |-> Fields(good[i])]

HasRoll(f, q) == \E i \in DOMAIN Records(f) : Records(f)[i][1] = q

RowOf(rec) == Row(rec[1], rec[2], rec[3])

IsPrefix(p, s) == Len(p) <= Len(s) /\ SubSeq(s, 1, Len(p)) = p

\* a printed row whose roll column is q
ShowsRoll(out, q) == \E i \in DOMAIN out : IsPrefix(q \o Sep, out[i])

-----------------------------------------------------------------------------
(* C1: Add(r, n, m) followed by List() completes without error and prints *)
(* a row exactly "r | n | m".                                            *)
C1_RoundTrip ==
    (prev.op = "add" /\ last.op = "list")
        => /\ last.err = "none"
           /\ Row(prev.roll, prev.name, prev.marks) \in Range(last.out)

(* C2 as stated: Search(r) after Add(r, n, m) reports exactly the record *)
(* just added, and Search(q) for a roll no stored record has reports     *)
(* "Student not found.".                                                 *)
C2_SearchReportsJustAdded ==
    /\ (prev.op = "add" /\ last.op = "search" /\ last.roll = prev.roll)
          => /\ last.err = "none"
             /\ last.out = <<FoundRow(prev.roll, prev.name, prev.marks)>>
    /\ (last.op = "search" /\ ~HasRoll(file, last.roll))
          => last.out = <<MsgNotFound>>

(* C2 as amended: Search(r) after Add(r, n, m) reports exactly one       *)
(* record, the earliest stored line whose roll is r, whenever every line *)
(* before it splits into three fields; with all lines splitting into     *)
(* three fields and r free of leading whitespace a record is always      *)
(* reported, and it is the one just added (its marks without trailing    *)
(* whitespace) only when no earlier record has roll r.  Search(q) for a  *)
(* roll no record has reports not-found when the file exists and all its *)
(* lines split into three fields.                                        *)
C2_SearchAfterAddFirstMatch ==
    LET ls == StoredLines(file)
        recs == Records(file)
        r == last.roll
    IN  /\ (prev.op = "add" /\ last.op = "search" /\ r = prev.roll)
              => /\ \A i \in DOMAIN ls :
                       (/\ ThreeFields(ls[i]) /\ Fields(ls[i])[1] = r
                        /\ \A j \in 1..(i - 1) : ThreeFields(ls[j]) /\ Fields(ls[j])[1] # r)
                          => (last.out = <<FoundPrefix \o RowOf(Fields(ls[i]))>>
                              /\ last.err = "none")
                 /\ (WellFormed(file) /\ LStrip(r) = r)
                       => /\ last.err = "none"
                          /\ \E i \in DOMAIN recs :
                                recs[i][1] = r /\ last.out = <<FoundPrefix \o RowOf(recs[i])>>
                          /\ (\A j \in 1..(Len(recs) - 1) : recs[j][1] # r)
                                => last.out = <<FoundRow(prev.roll, prev.name,
                                                         RStrip(prev.marks))>>
        /\ (last.op = "search" /\ WellFormed(file) /\ ~HasRoll(file, r))
              => (last.out = <<MsgNotFound>> /\ last.err = "none")

C2_Witness ==
    /\ prev.op = "add" /\ last.op = "search" /\ last.roll = prev.roll
    /\ prev2.op = "add" /\ prev2.roll = prev.roll /\ prev2.name # prev.name
    /\ WellFormed(file)
    /\ last.out = <<FoundRow(prev2.roll, prev2.name, prev2.marks)>>

(* C3: after Add(r, n, m) and Delete(r), a following Search(r) reports   *)
(* not-found without an error and a following List() prints no row with  *)
(* roll r.                                                               *)
C3_DeleteAfterAdd ==
    (prev2.op = "add" /\ prev.op = "delete" /\ prev.roll = prev2.roll)
        => /\ (last.op = "search" /\ last.roll = prev.roll)
                 => (last.out = <<MsgNotFound>> /\ last.err = "none")
           /\ (last.op = "list") => ~ShowsRoll(last.out, prev.roll)

C3_Witness ==
    /\ prev2.op = "add" /\ prev.op = "delete" /\ prev.roll = prev2.roll
    /\ prev.out = <<MsgDeleted>>
    /\ last.op = "search" /\ last.roll = prev.roll
    /\ last.out = <<MsgNotFound>>
    /\ Len(Records(file)) > 0

(* C4: on a store whose lines all split into three fields, Delete(r)     *)
(* leaves exactly the prior lines whose roll differs from r, in their    *)
(* original order; every line with roll r goes in the one pass.          *)
C4_DeleteIsFilter ==
    [][\A q \in Rolls :
          (delete_student(q) /\ WellFormed(file))
             => /\ file'.exists
                /\ ReadLines(file'.data)
                      = SelectSeq(ReadLines(file.data), LAMBDA l : Fields(l)[1] # q)]_vars

C4_Witness ==
    /\ prev2.op = "add" /\ prev.op = "add" /\ last.op = "delete"
    /\ prev2.roll = last.roll /\ prev.roll = last.roll /\ prev2.name # prev.name
    /\ last.out = <<MsgDeleted>>
    /\ ~HasRoll(file, last.roll)

(* C5: whenever the store holds zero records, List() prints "No records  *)
(* found." and raises no error.                                          *)
C5_EmptyStoreList ==
    (last.op = "list" /\ Len(StoredLines(file)) = 0)
        => (last.out = <<MsgNoRecords>> /\ last.err = "none")

(* C6: List and Search leave the file as it was, and two List() calls    *)
(* with only List/Search between them print the same.                    *)
C6_ReadOnly ==
    /\ [][(view_students \/ \E q \in Rolls : search_student(q)) => file' = file]_vars
    /\ []((last.op = "list" /\ prev.op = "list")
             => (last.out = prev.out /\ last.err = prev.err))
    /\ []((last.op = "list" /\ prev.op \in {"list", "search"} /\ prev2.op = "list")
             => (last.out = prev2.out /\ last.err = prev2.err))

C6_Witness ==
    /\ prev2.op = "list" /\ prev.op = "search" /\ last.op = "list"
    /\ Len(last.out) > 3
    /\ last.out = prev2.out

(* C7: with the file absent, List() prints "No records found." and the   *)
(* menu loop goes on, Search(r) prints nothing and ends the program with *)
(* FileNotFoundError; the file is still absent after either.             *)
C7_AbsentFile ==
    [][/\ (view_students /\ ~file.exists)
             => /\ last'.out = <<MsgNoRecords>> /\ last'.err = "none"
                /\ running' /\ ~file'.exists
       /\ \A q \in Rolls :
            (search_student(q) /\ ~file.exists)
               => /\ last'.err = "FileNotFoundError"
                  /\ MsgNotFound \notin Range(last'.out)
                  /\ ~running' /\ ~file'.exists]_vars

C7_Witness ==
    /\ ~file.exists
    /\ prev.op = "list" /\ prev.out = <<MsgNoRecords>>
    /\ last.op = "search" /\ last.err = "FileNotFoundError"
    /\ ~running

(* C8 as stated: when several records share roll r, Search(r) reports    *)
(* the earliest of them only; it reports not-found if and only if no     *)
(* stored record has roll r.                                             *)
C8_FirstMatch ==
    (last.op = "search")
        => LET recs == Records(file)
               r == last.roll
           IN  /\ \A i \in DOMAIN recs :
                     (recs[i][1] = r /\ \A j \in 1..(i - 1) : recs[j][1] # r)
                        => last.out = <<FoundPrefix \o RowOf(recs[i])>>
               /\ (last.out = <<MsgNotFound>>) <=> ~HasRoll(file, r)

(* C8 as amended: Search(r) reports exactly the earliest line with roll  *)
(* r, never a later one, provided every line before it splits into three *)
(* fields; it reports not-found if and only if the file exists, every    *)
(* line splits into three fields and no record has roll r.               *)
C8_FirstMatchWellFormedPrefix ==
    (last.op = "search")
        => LET ls == StoredLines(file)
               r == last.roll
           IN  /\ \A i \in DOMAIN ls :
                     (/\ ThreeFields(ls[i]) /\ Fields(ls[i])[1] = r
                      /\ \A j \in 1..(i - 1) : ThreeFields(ls[j]) /\ Fields(ls[j])[1] # r)
                        => (last.out = <<FoundPrefix \o RowOf(Fields(ls[i]))>>
                            /\ last.err = "none")
               /\ (last.out = <<MsgNotFound>>)
                     <=> (WellFormed(file) /\ ~HasRoll(file, r))

C8_Witness ==
    /\ last.op = "search"
    /\ Len(Records(file)) = 2
    /\ Records(file)[1][1] = last.roll /\ Records(file)[2][1] = last.roll
    /\ Records(file)[1] # Records(file)[2]
    /\ last.out = <<FoundPrefix \o RowOf(Records(file)[1])>>

\* index of the first line that does not split into three fields
FirstBad(ls) == CHOOSE k \in DOMAIN ls :
                    ~ThreeFields(ls[k]) /\ \A j \in 1..(k - 1) : ThreeFields(ls[j])

(* C10: if some line does not split into three fields, Delete(r) leaves  *)
(* only the non-matching lines before the first such line and ends with  *)
(* an unhandled ValueError; that line and all after it are gone.         *)
C10_DeleteTruncatesOnBadLine ==
    [][\A q \in Rolls :
          (delete_student(q) /\ file.exists /\ ~WellFormed(file))
             => LET ls == ReadLines(file.data)
                    k == FirstBad(ls)
                IN  /\ file'.exists
                    /\ ReadLines(file'.data)
                          = SelectSeq(SubSeq(ls, 1, k - 1), LAMBDA l : Fields(l)[1] # q)
                    /\ last'.err = "ValueError" /\ last'.out = <<>>
                    /\ ~running']_vars

C10_Witness ==
    /\ last.op = "delete" /\ last.err = "ValueError"
    /\ prev2.op = "add" /\ ~ThreeFields(Line(prev2.roll, prev2.name, prev2.marks))
    /\ prev.op = "add" /\ ThreeFields(Line(prev.roll, prev.name, prev.marks))
    /\ Fields(Line(prev.roll, prev.name, prev.marks))[1] # last.roll
    /\ Line(prev.roll, prev.name, prev.marks) \notin Range(StoredLines(file))

RECURSIVE Concat(_)
Concat(ls) == IF ls = <<>> THEN <<>> ELSE Head(ls) \o Concat(Tail(ls))

(* C9: the rewrite of Delete(r1) puts back the lines instance i read     *)
(* earlier, less those with roll r1, at the start of the file; when      *)
(* nothing arrived after the truncation the file is exactly those lines, *)
(* so a line another instance appended since the read is gone unless the *)
(* snapshot already held an equal line.                                  *)
C9_RewriteFromSnapshot ==
    [][\A i \in Inst :
          ConcDeleteClose(i)
             => LET kept == SelectSeq(lines[i], LAMBDA l : Fields(l)[1] # cur[i].roll)
                IN  /\ IsPrefix(Concat(kept), file'.data)
                    /\ (file.data = <<>>)
                          => /\ ReadLines(file'.data) = kept
                             /\ \A l \in landed[i] :
                                   l \notin Range(lines[i])
                                      => l \notin Range(ReadLines(file'.data))]_vars

\* instance j's Add(r2, n, m) landed between instance i's read and rewrite
\* in Delete(r1), r1 # r2; j printed success, i finished, the line is gone
C9_Witness ==
    \E i \in Inst : \E j \in Inst \ {i} :
        /\ pc[i] = "menu" /\ cur[i].op = "delete"
        /\ msg[i] \in {<<MsgDeleted>>, <<MsgNotFound>>}
        /\ pc[j] = "menu" /\ cur[j].op = "add" /\ msg[j] = <<MsgAdded>>
        /\ LET l == Line(cur[j].roll, cur[j].name, cur[j].marks)
           IN  /\ l \in landed[i]
               /\ Fields(l)[1] # cur[i].roll
               /\ l \notin Range(lines[i])
               /\ l \notin Range(StoredLines(file))
====
